---- MODULE Spec2Model ----
(***************************************************************************)
(* A model of emulate.py: wires (Node), named collections (NodeList),      *)
(* primitive gates, derived gates, SR latches and the D-type and JK        *)
(* flip-flops.                                                             *)
(*                                                                         *)
(* One component, `top`, is built by a caller that owns a small pool of    *)
(* external wires.  The caller changes wire states, assigns `top.inputs`   *)
(* and calls `top.calculate()`.  Components are addressed by the path of   *)
(* sub-component names that leads to them from `top` (the names used by    *)
(* `self._components["..."]`); a wire created by a component is addressed  *)
(* by the path of the component that created it.                           *)
(***************************************************************************)
EXTENDS Integers, Sequences, FiniteSets, TLC

\* top      : path of the component the caller built
\* state    : Node.state of every wire
\* name     : Node.name of every wire
\* inputs   : ComponentBase._inputs of every component (a list of wires)
\* bound    : FALSE while _inputs is still None
\* outputs  : ComponentBase._outputs of every component (a list of wires)
\* last     : the caller's latest operation and the error it raised
\* settled  : output states returned by the latest calculate() (<<>>: none)
VARIABLES top, state, name, inputs, bound, outputs, last, settled

vars == <<top, state, name, inputs, bound, outputs, last, settled>>

(***************************************************************************)
(* Bounds of the exploration.                                              *)
(***************************************************************************)
\* number of wires the caller owns when it builds a gate
NumExt == 2
\* number of named wires the caller owns when it builds a latch or flip-flop
NumNamed == 3
\* longest input list the caller assigns
MaxInputs == 3

(***************************************************************************)
(* class State(enum.IntFlag)                                               *)
(***************************************************************************)
low == 0
high == 1
z == 2
State == {low, high, z}

\* State.__eq__ / Node compared with a State: equality of the integer values
State_eq(a, b) == a = b

\* variant: the comparison written as `>` instead of `>=`
AtLeastHigh_Strict(v) == v > high

\* `i.state >= State.high`: integer comparison of the enum values
AtLeastHigh(v) == v >= high

(***************************************************************************)
(* Component hierarchy.                                                    *)
(***************************************************************************)
PrimitiveClasses == {"OrGate", "AndGate", "XorGate", "NotGate"}
DerivedClasses == {"NorGate", "NandGate", "XnorGate"}
LatchClasses == {"SRNorLatch", "SRNandLatch"}
OneOutputClasses == PrimitiveClasses \cup DerivedClasses

\* the class of a sub-component, from the name it is registered under
ClassOf(n) ==
    CASE n \in {"NorGate1", "NorGate2"} -> "NorGate"
      [] n \in {"NandGate1", "NandGate2"} -> "NandGate"
      [] OTHER -> n

Cls(p) == ClassOf(p[Len(p)])

\* `components` class attribute / get_components(): sub-component names in
\* declaration order
components(cls) ==
    CASE cls = "NorGate" -> <<"OrGate", "NotGate">>
      [] cls = "NandGate" -> <<"AndGate", "NotGate">>
      [] cls = "XnorGate" -> <<"XorGate", "NotGate">>
      [] cls = "SRNorLatch" -> <<"NorGate1", "NorGate2">>
      [] cls = "SRNandLatch" -> <<"NandGate1", "NandGate2">>
      [] cls = "DTypeFlipFlop" ->
            <<"NotGate", "NandGate1", "NandGate2", "SRNandLatch">>
      [] cls = "JKFlipFlop" -> <<"NandGate1", "NandGate2", "SRNandLatch">>
      [] OTHER -> <<>>

\* self._components[n]
Sub(p, n) == Append(p, n)

\* the name a sub-component was constructed with: "" when it was built
\* without one (NotGate(), SRNandLatch(), the classes of a `components` tuple)
GivenName(p) ==
    IF Len(p) > 1 /\ p[Len(p)] \in {"NorGate1", "NorGate2", "NandGate1", "NandGate2"}
    THEN p[Len(p)]
    ELSE ""

RECURSIVE Tree(_)
Tree(p) ==
    {p} \cup UNION {Tree(Sub(p, components(Cls(p))[i])) : i \in DOMAIN components(Cls(p))}

(***************************************************************************)
(* Wires (class Node).                                                     *)
(***************************************************************************)
\* the Node created by OneOutputComponent.__init__ of component p
W(p) == [owner |-> p, idx |-> 0]
\* the i-th Node created by the caller
Ext(i) == [owner |-> <<>>, idx |-> i]

\* how many wires the caller created before it built a component of class cls
PoolSize(cls) == IF cls \in OneOutputClasses THEN NumExt ELSE NumNamed

GateWires == {Ext(i) : i \in 1..NumExt}
NamedWires == {Ext(i) : i \in 1..NumNamed}
ExtWires(t) == IF Cls(t) \in OneOutputClasses THEN GateWires ELSE NamedWires
OwnWires(t) == {W(p) : p \in {q \in Tree(t) : Cls(q) \in OneOutputClasses}}
Wires(t) == ExtWires(t) \cup OwnWires(t)

\* components in the order their __init__ reaches `Node(name=out_name)`:
\* sub-components first (ComponentBase.__init__), then the component itself
RECURSIVE Created(_), CreatedIn(_, _)
Created(p) ==
    CreatedIn(p, components(Cls(p)))
        \o (IF Cls(p) \in OneOutputClasses THEN <<p>> ELSE <<>>)
CreatedIn(p, ns) ==
    IF ns = <<>> THEN <<>>
    ELSE Created(Sub(p, Head(ns))) \o CreatedIn(p, Tail(ns))

\* Node._id_counter starts at 1 and is incremented before it is used
Node_id_counter == 1

\* Node.__init__: the given name, or "Node<counter>"
NodeName(given, k) ==
    IF given # "" THEN given ELSE "Node" \o ToString(Node_id_counter + k)

\* the input port names of a class (expected_names of its setter)
PortNames(cls) ==
    CASE cls \in LatchClasses -> <<"Set", "Reset">>
      [] cls = "DTypeFlipFlop" -> <<"D", "Clk">>
      [] cls = "JKFlipFlop" -> <<"J", "K", "Clk">>
      [] OTHER -> <<>>

\* The caller's wires.  For a gate they are unnamed (Node(state)).  For a
\* latch or flip-flop the first wires carry the port names, the next one
\* carries `spare` (a port name again, or a name that is no port), and any
\* further wire is named "X".
SpareNames(cls) ==
    IF cls \in OneOutputClasses THEN {""}
    ELSE {PortNames(cls)[1], "X"}

ExtGiven(cls, spare, i) ==
    IF i \in DOMAIN PortNames(cls) THEN PortNames(cls)[i]
    ELSE IF i = Len(PortNames(cls)) + 1 THEN spare
    ELSE IF cls \in OneOutputClasses THEN "" ELSE "X"

\* the name of every wire right after `top` was constructed without inputs
InitName(t, spare, w) ==
    IF w \in ExtWires(t)
    THEN NodeName(ExtGiven(Cls(t), spare, w.idx), w.idx)
    ELSE LET k == CHOOSE i \in DOMAIN Created(t) : Created(t)[i] = w.owner
             g == GivenName(w.owner)
         IN NodeName(IF g = "" THEN "" ELSE g \o "_out", PoolSize(Cls(t)) + k)

\* self._outputs after __init__ without inputs; JKFlipFlop.__init__ raises
\* before it assigns _outputs, which stays None (the empty list here)
RECURSIVE InitOutputs(_)
InitOutputs(p) ==
    CASE Cls(p) \in PrimitiveClasses -> <<W(p)>>
      [] Cls(p) \in DerivedClasses -> InitOutputs(Sub(p, "NotGate"))
      [] Cls(p) \in LatchClasses ->
            [i \in DOMAIN components(Cls(p)) |->
                InitOutputs(Sub(p, components(Cls(p))[i]))[1]]
      [] Cls(p) = "DTypeFlipFlop" -> InitOutputs(Sub(p, "SRNandLatch"))
      [] OTHER -> <<>>

(***************************************************************************)
(* Errors.                                                                 *)
(***************************************************************************)
NoErr == ""

(***************************************************************************)
(* Truth functions of the primitive gates, over the list of input states.  *)
(***************************************************************************)
\* variant: all() where any() is meant
OrFn_All(vs) == IF \A i \in DOMAIN vs : AtLeastHigh(vs[i]) THEN high ELSE low

\* OrGate.calculate: any(i.state >= State.high ...)
OrFn(vs) == IF \E i \in DOMAIN vs : AtLeastHigh(vs[i]) THEN high ELSE low

\* variant: any() where all() is meant
AndFn_Any(vs) == IF \E i \in DOMAIN vs : AtLeastHigh(vs[i]) THEN high ELSE low

\* AndGate.calculate: all(i.state >= State.high ...)
AndFn(vs) == IF \A i \in DOMAIN vs : AtLeastHigh(vs[i]) THEN high ELSE low

\* variant: parity (an odd number of asserted inputs) instead of exactly one
XorFn_Parity(vs) ==
    IF Cardinality({i \in DOMAIN vs : AtLeastHigh(vs[i])}) % 2 = 1 THEN high ELSE low

\* XorGate.calculate: Counter(converted_inputs).get(True) == 1
XorFn(vs) ==
    IF Cardinality({i \in DOMAIN vs : AtLeastHigh(vs[i])}) = 1 THEN high ELSE low

\* variant: low only for an input that is high
NotFn_UnlessHigh(v) == IF State_eq(v, high) THEN low ELSE high

\* variant: a Floating input gives a Floating output
NotFn_KeepsFloating(v) ==
    IF State_eq(v, z) THEN z ELSE IF State_eq(v, low) THEN high ELSE low

\* NotGate.calculate: high if inputs[0] == State.low else low
NotFn(v) == IF State_eq(v, low) THEN high ELSE low

\* the states of a list of wires
StatesOf(ws, st) == [i \in DOMAIN ws |-> st[ws[i]]]

(***************************************************************************)
(* calculate().  r = [st |-> wire states, err |-> error raised so far].    *)
(***************************************************************************)
RECURSIVE calculate(_, _)

\* a primitive with `_inputs = None` fails on iterating / indexing None
PrimitiveCalculate(p, r, v) ==
    IF ~bound[p] THEN [r EXCEPT !.err = "TypeError"]
    ELSE [r EXCEPT !.st[outputs[p][1]] = v]

OrGate_calculate(p, r) == PrimitiveCalculate(p, r, OrFn(StatesOf(inputs[p], r.st)))

AndGate_calculate(p, r) == PrimitiveCalculate(p, r, AndFn(StatesOf(inputs[p], r.st)))

XorGate_calculate(p, r) == PrimitiveCalculate(p, r, XorFn(StatesOf(inputs[p], r.st)))

\* variant: a Floating input is pulled high on the input wire before it is read
NotGate_calculate_WritesInput(p, r) ==
    IF ~bound[p] THEN [r EXCEPT !.err = "TypeError"]
    ELSE [r EXCEPT !.st[outputs[p][1]] = NotFn(r.st[inputs[p][1]]),
                   !.st[inputs[p][1]] = IF @ = z THEN high ELSE @]

NotGate_calculate(p, r) ==
    IF ~bound[p] THEN [r EXCEPT !.err = "TypeError"]
    ELSE [r EXCEPT !.st[outputs[p][1]] = NotFn(r.st[inputs[p][1]])]

\* ComponentBase.calculate: every sub-component once, in declaration order
RECURSIVE CalculateEach(_, _, _)
CalculateEach(p, ns, r) ==
    IF ns = <<>> THEN r
    ELSE CalculateEach(p, Tail(ns), calculate(Sub(p, Head(ns)), r))

\* variant: the sub-components evaluated in reverse declaration order
ComponentBase_calculate_Reversed(p, r) ==
    LET ns == components(Cls(p))
    IN CalculateEach(p, [i \in DOMAIN ns |-> ns[Len(ns) + 1 - i]], r)

ComponentBase_calculate(p, r) == CalculateEach(p, components(Cls(p)), r)

\* variant: the three passes start with gate 2
SRNorLatch_calculate_SecondFirst(p, r) ==
    calculate(Sub(p, "NorGate2"),
        calculate(Sub(p, "NorGate1"),
            calculate(Sub(p, "NorGate2"), r)))

\* variant: gate 1 and gate 2 evaluated once each
SRNorLatch_calculate_TwoPasses(p, r) ==
    calculate(Sub(p, "NorGate2"), calculate(Sub(p, "NorGate1"), r))

SRNorLatch_calculate(p, r) ==
    calculate(Sub(p, "NorGate1"),
        calculate(Sub(p, "NorGate2"),
            calculate(Sub(p, "NorGate1"), r)))

\* variant: gate 1 and gate 2 evaluated once each
SRNandLatch_calculate_TwoPasses(p, r) ==
    calculate(Sub(p, "NandGate2"), calculate(Sub(p, "NandGate1"), r))

\* variant: gate 2 first, then gate 1, once each
SRNandLatch_calculate_SecondFirst(p, r) ==
    calculate(Sub(p, "NandGate1"), calculate(Sub(p, "NandGate2"), r))

SRNandLatch_calculate(p, r) ==
    calculate(Sub(p, "NandGate1"),
        calculate(Sub(p, "NandGate2"),
            calculate(Sub(p, "NandGate1"), r)))

\* dispatch on the class; an exception raised earlier skips the rest
calculate(p, r) ==
    IF r.err # NoErr THEN r
    ELSE CASE Cls(p) = "OrGate" -> OrGate_calculate(p, r)
           [] Cls(p) = "AndGate" -> AndGate_calculate(p, r)
           [] Cls(p) = "XorGate" -> XorGate_calculate(p, r)
           [] Cls(p) = "NotGate" -> NotGate_calculate(p, r)
           [] Cls(p) = "SRNorLatch" -> SRNorLatch_calculate(p, r)
           [] Cls(p) = "SRNandLatch" -> SRNandLatch_calculate(p, r)
           [] OTHER -> ComponentBase_calculate(p, r)

(***************************************************************************)
(* NamedObjectList / NodeList.                                             *)
(***************************************************************************)
NoWire == [owner |-> <<>>, idx |-> 0]

\* variant: the port is taken by its position in the list, not by its name
get_object_by_name_ByPosition(ws, n, nm) ==
    IF n \in {"Set", "D"} THEN ws[1] ELSE ws[Len(ws)]

\* variant: the last entry with that name
get_object_by_name_Last(ws, n, nm) ==
    LET hits == {i \in DOMAIN ws : nm[ws[i]] = n}
    IN IF hits = {} THEN NoWire
       ELSE ws[CHOOSE i \in hits : \A j \in hits : i >= j]

\* NamedObjectList.get_object_by_name: the first entry with that name, in
\* list order; NoWire stands for the ValueError raised when there is none
get_object_by_name(ws, n, nm) ==
    LET hits == {i \in DOMAIN ws : nm[ws[i]] = n}
    IN IF hits = {} THEN NoWire
       ELSE ws[CHOOSE i \in hits : \A j \in hits : i <= j]

\* the names the not-found message lists: every name of the list, in order
NamesOf(ws, nm) == [i \in DOMAIN ws |-> nm[ws[i]]]

\* variant: missing names are looked for before unexpected ones
validate_MissingFirst(ws, nm, expected_names, min_length, max_length) ==
    LET names == {nm[ws[i]] : i \in DOMAIN ws}
        expected == {expected_names[i] : i \in DOMAIN expected_names}
    IN IF min_length # 0 /\ Len(ws) < min_length THEN "minimum"
       ELSE IF max_length # 0 /\ Len(ws) > max_length THEN "maximum"
       ELSE IF expected_names # <<>> /\ expected \ names # {} THEN "missing"
       ELSE IF expected_names # <<>> /\ names \ expected # {} THEN "not expected"
       ELSE NoErr

\* NodeList.validate: the error it raises (NoErr: none).  0 and <<>> stand
\* for an omitted (falsy) min_length / max_length / expected_names.
validate(ws, nm, expected_names, min_length, max_length) ==
    LET names == {nm[ws[i]] : i \in DOMAIN ws}
        expected == {expected_names[i] : i \in DOMAIN expected_names}
    IN IF min_length # 0 /\ Len(ws) < min_length THEN "minimum"
       ELSE IF max_length # 0 /\ Len(ws) > max_length THEN "maximum"
       ELSE IF expected_names # <<>> /\ names \ expected # {} THEN "not expected"
       ELSE IF expected_names # <<>> /\ expected \ names # {} THEN "missing"
       ELSE NoErr

\* the names the message of the raised error lists
Reported(ws, nm, expected_names, min_length, max_length) ==
    LET names == {nm[ws[i]] : i \in DOMAIN ws}
        expected == {expected_names[i] : i \in DOMAIN expected_names}
        e == validate(ws, nm, expected_names, min_length, max_length)
    IN [unexpected |-> IF e = "not expected" THEN names \ expected ELSE {},
        missing |-> IF e = "missing" THEN expected \ names ELSE {}]

(***************************************************************************)
(* The `inputs` setters.  c = [inputs, bound, outputs, name, err]: the     *)
(* bindings and wire names as the setter found or left them, and the       *)
(* error raised so far.                                                    *)
(***************************************************************************)
RECURSIVE setInputs(_, _, _)

Raise(c, e) == [c EXCEPT !.err = e]

\* ComponentBase.inputs setter: self._inputs = NodeList(inputs)
ComponentBase_inputs(p, ins, c) ==
    [c EXCEPT !.inputs[p] = ins, !.bound[p] = TRUE]

\* variant: the list is stored before its length is checked
MinTwoInputOneOutputComponent_inputs_Late(p, ins, c) ==
    IF ins # <<>> /\ Len(ins) < 2
    THEN Raise(ComponentBase_inputs(p, ins, c), "must have two or more inputs")
    ELSE ComponentBase_inputs(p, ins, c)

\* MinTwoInputOneOutputComponent.inputs setter
MinTwoInputOneOutputComponent_inputs(p, ins, c) ==
    IF ins # <<>> /\ Len(ins) < 2
    THEN Raise(c, "must have two or more inputs")
    ELSE ComponentBase_inputs(p, ins, c)

\* variant: only the empty list is refused
NotGate_inputs_AtLeastOne(p, ins, c) ==
    IF Len(ins) < 1
    THEN Raise(c, "can only have one input")
    ELSE ComponentBase_inputs(p, ins, c)

\* NotGate.inputs setter
NotGate_inputs(p, ins, c) ==
    IF Len(ins) # 1
    THEN Raise(c, "can only have one input")
    ELSE ComponentBase_inputs(p, ins, c)

\* variant: the primitive stage is wired the first time only
DerivedGate_inputs_Stale(p, g, ins, c) ==
    LET c1 == MinTwoInputOneOutputComponent_inputs(p, ins, c)
        c2 == IF c1.err = NoErr /\ c1.bound[Sub(p, g)] THEN c1
              ELSE setInputs(Sub(p, g), ins, c1)
        c3 == setInputs(Sub(p, "NotGate"), c2.outputs[Sub(p, g)], c2)
    IN c3

\* NorGate / NandGate / XnorGate .inputs setter; g names the primitive stage
DerivedGate_inputs(p, g, ins, c) ==
    LET c1 == MinTwoInputOneOutputComponent_inputs(p, ins, c)
        c2 == setInputs(Sub(p, g), ins, c1)
        c3 == setInputs(Sub(p, "NotGate"), c2.outputs[Sub(p, g)], c2)
    IN c3

NorGate_inputs(p, ins, c) == DerivedGate_inputs(p, "OrGate", ins, c)

NandGate_inputs(p, ins, c) == DerivedGate_inputs(p, "AndGate", ins, c)

XnorGate_inputs(p, ins, c) == DerivedGate_inputs(p, "XorGate", ins, c)

\* variant: a sub-component that is already wired keeps its wiring
SetPair_Stale(p, first, second, c) ==
    IF c.err # NoErr THEN c
    ELSE IF NoWire \in {first, second} THEN Raise(c, "not found")
    ELSE IF c.bound[p] THEN c
    ELSE setInputs(p, <<first, second>>, c)

\* the list [first, second] handed to a sub-component; a failed lookup of
\* one of its elements raises before the sub-component's setter is entered
SetPair(p, first, second, c) ==
    IF c.err # NoErr THEN c
    ELSE IF NoWire \in {first, second} THEN Raise(c, "not found")
    ELSE setInputs(p, <<first, second>>, c)

\* node.name = n
Rename(w, n, c) == IF c.err # NoErr THEN c ELSE [c EXCEPT !.name[w] = n]

\* self._outputs = ws
\* variant: the output list stored in reverse order
SetOutputs_Reversed(p, ws, c) ==
    IF c.err # NoErr THEN c
    ELSE [c EXCEPT !.outputs[p] = [i \in DOMAIN ws |-> ws[Len(ws) + 1 - i]]]

SetOutputs(p, ws, c) == IF c.err # NoErr THEN c ELSE [c EXCEPT !.outputs[p] = ws]

\* variant: Set and Reset wired to the wrong gates
SRNorLatch_inputs_Swapped(p, ins, c) ==
    LET e == validate(ins, c.name, <<"Set", "Reset">>, 2, 2)
        g1 == Sub(p, "NorGate1")
        g2 == Sub(p, "NorGate2")
        c1 == MinTwoInputOneOutputComponent_inputs(p, ins, c)
        c2 == SetPair(g1, get_object_by_name(ins, "Set", c1.name),
                      c1.outputs[g2][1], c1)
        c3 == SetPair(g2, get_object_by_name(ins, "Reset", c2.name),
                      c2.outputs[g1][1], c2)
        c4 == Rename(c3.outputs[g1][1], "Q", c3)
        c5 == Rename(c4.outputs[g2][1], "QBar", c4)
    IN IF e # NoErr THEN Raise(c, e)
       ELSE SetOutputs(p, <<c5.outputs[g1][1], c5.outputs[g2][1]>>, c5)

\* SRNorLatch.inputs setter
SRNorLatch_inputs(p, ins, c) ==
    LET e == validate(ins, c.name, <<"Set", "Reset">>, 2, 2)
        g1 == Sub(p, "NorGate1")
        g2 == Sub(p, "NorGate2")
        c1 == MinTwoInputOneOutputComponent_inputs(p, ins, c)
        c2 == SetPair(g1, get_object_by_name(ins, "Reset", c1.name),
                      c1.outputs[g2][1], c1)
        c3 == SetPair(g2, get_object_by_name(ins, "Set", c2.name),
                      c2.outputs[g1][1], c2)
        c4 == Rename(c3.outputs[g1][1], "Q", c3)
        c5 == Rename(c4.outputs[g2][1], "QBar", c4)
    IN IF e # NoErr THEN Raise(c, e)
       ELSE SetOutputs(p, <<c5.outputs[g1][1], c5.outputs[g2][1]>>, c5)

\* variant: Set and Reset wired to the wrong gates
SRNandLatch_inputs_Swapped(p, ins, c) ==
    LET e == validate(ins, c.name, <<"Set", "Reset">>, 2, 2)
        g1 == Sub(p, "NandGate1")
        g2 == Sub(p, "NandGate2")
        c1 == MinTwoInputOneOutputComponent_inputs(p, ins, c)
        c2 == SetPair(g1, get_object_by_name(ins, "Reset", c1.name),
                      c1.outputs[g2][1], c1)
        c3 == SetPair(g2, get_object_by_name(ins, "Set", c2.name),
                      c2.outputs[g1][1], c2)
        c4 == Rename(c3.outputs[g1][1], "Q", c3)
        c5 == Rename(c4.outputs[g2][1], "QBar", c4)
    IN IF e # NoErr THEN Raise(c, e)
       ELSE SetOutputs(p, <<c5.outputs[g1][1], c5.outputs[g2][1]>>, c5)

\* SRNandLatch.inputs setter
SRNandLatch_inputs(p, ins, c) ==
    LET e == validate(ins, c.name, <<"Set", "Reset">>, 2, 2)
        g1 == Sub(p, "NandGate1")
        g2 == Sub(p, "NandGate2")
        c1 == MinTwoInputOneOutputComponent_inputs(p, ins, c)
        c2 == SetPair(g1, get_object_by_name(ins, "Set", c1.name),
                      c1.outputs[g2][1], c1)
        c3 == SetPair(g2, get_object_by_name(ins, "Reset", c2.name),
                      c2.outputs[g1][1], c2)
        c4 == Rename(c3.outputs[g1][1], "Q", c3)
        c5 == Rename(c4.outputs[g2][1], "QBar", c4)
    IN IF e # NoErr THEN Raise(c, e)
       ELSE SetOutputs(p, <<c5.outputs[g1][1], c5.outputs[g2][1]>>, c5)

\* DTypeFlipFlop.inputs setter
DTypeFlipFlop_inputs(p, ins, c) ==
    LET e == validate(ins, c.name, <<"D", "Clk">>, 2, 2)
        not_gate == Sub(p, "NotGate")
        nand_set == Sub(p, "NandGate1")
        nand_reset == Sub(p, "NandGate2")
        srnand == Sub(p, "SRNandLatch")
        d == get_object_by_name(ins, "D", c.name)
        clk == get_object_by_name(ins, "Clk", c.name)
        c1 == ComponentBase_inputs(p, ins, c)
        c2 == IF d = NoWire THEN Raise(c1, "not found")
              ELSE setInputs(not_gate, <<d>>, c1)
        c3 == SetPair(nand_set, d, clk, c2)
        c4 == Rename(c3.outputs[nand_set][1], "Set", c3)
        c5 == SetPair(nand_reset, c4.outputs[not_gate][1], clk, c4)
        c6 == Rename(c5.outputs[nand_reset][1], "Reset", c5)
        c7 == SetPair(srnand, c6.outputs[nand_set][1], c6.outputs[nand_reset][1], c6)
    IN IF e # NoErr THEN Raise(c, e)
       ELSE SetOutputs(p, c7.outputs[srnand], c7)

\* JKFlipFlop.inputs setter: validate, store the list, then read
\* `srnand.outputss`, an attribute SRNandLatch does not have
JKFlipFlop_inputs(p, ins, c) ==
    LET e == validate(ins, c.name, <<"J", "K", "Clk">>, 2, 2)
        c1 == ComponentBase_inputs(p, ins, c)
    IN IF e # NoErr THEN Raise(c, e)
       ELSE Raise(c1, "AttributeError")

\* dispatch on the class; an exception raised earlier skips the rest
setInputs(p, ins, c) ==
    IF c.err # NoErr THEN c
    ELSE CASE Cls(p) = "NotGate" -> NotGate_inputs(p, ins, c)
           [] Cls(p) = "NorGate" -> NorGate_inputs(p, ins, c)
           [] Cls(p) = "NandGate" -> NandGate_inputs(p, ins, c)
           [] Cls(p) = "XnorGate" -> XnorGate_inputs(p, ins, c)
           [] Cls(p) = "SRNorLatch" -> SRNorLatch_inputs(p, ins, c)
           [] Cls(p) = "SRNandLatch" -> SRNandLatch_inputs(p, ins, c)
           [] Cls(p) = "DTypeFlipFlop" -> DTypeFlipFlop_inputs(p, ins, c)
           [] Cls(p) = "JKFlipFlop" -> JKFlipFlop_inputs(p, ins, c)
           [] OTHER -> MinTwoInputOneOutputComponent_inputs(p, ins, c)

(***************************************************************************)
(* __init__ of the component the caller builds.                            *)
(***************************************************************************)
\* ComponentBase.__init__: `if inputs: self.inputs = inputs`
ComponentBase_init(p, ins, c) ==
    IF ins # <<>> THEN setInputs(p, ins, c) ELSE c

\* JKFlipFlop.__init__: super().__init__, then `.outputss` of its latch
JKFlipFlop_init(p, ins, c) ==
    LET c1 == ComponentBase_init(p, ins, c)
    IN IF c1.err # NoErr THEN c1 ELSE Raise(c1, "AttributeError")

\* __init__ of every other class: super().__init__, then self._outputs is
\* set to the output wires of the class
Component_init(p, ins, c) ==
    IF Cls(p) = "JKFlipFlop" THEN JKFlipFlop_init(p, ins, c)
    ELSE SetOutputs(p, InitOutputs(p), ComponentBase_init(p, ins, c))

(***************************************************************************)
(* The caller.                                                             *)
(***************************************************************************)
PrimitiveTops == {<<"AndGate">>, <<"OrGate">>, <<"XorGate">>, <<"NotGate">>}
DerivedTops == {<<"NandGate">>, <<"NorGate">>, <<"XnorGate">>}
LatchTops == {<<"SRNorLatch">>, <<"SRNandLatch">>}
FlipFlopTops == {<<"DTypeFlipFlop">>}
JKTops == {<<"JKFlipFlop">>}

\* The input lists the caller assigns to a gate: up to MaxInputs of its
\* wires in creation order, a wire possibly more than once.
GateLists ==
    {l \in UNION {[1..n -> GateWires] : n \in 0..MaxInputs} :
        \A i \in 1..(Len(l) - 1) : l[i].idx <= l[i + 1].idx}

\* max_length of the latch and flip-flop setters
setter_max_length == 2

\* The input lists the caller assigns to a latch or flip-flop: distinct
\* wires in any order, up to one more than the setter accepts.
NamedLists ==
    {l \in UNION {[1..n -> NamedWires] : n \in 0..(setter_max_length + 1)} :
        \A i, j \in 1..Len(l) : i # j => l[i] # l[j]}

InputLists == IF Cls(top) \in OneOutputClasses THEN GateLists ELSE NamedLists

Op(o, e) == [op |-> o, err |-> e]

\* the bindings and wire names as they are now
Current ==
    [inputs |-> inputs, bound |-> bound, outputs |-> outputs, name |-> name,
     err |-> NoErr]

\* the component exists: its constructor returned
Built == ~(last.op \in {"new", "init"} /\ last.err # NoErr)

\* what `top.inputs = ins` does
BindResult(ins) == setInputs(top, ins, Current)

\* c = Component(): built without inputs; every Node starts low
InitFor(tops) ==
    /\ top \in tops
    /\ state = [w \in Wires(top) |-> low]
    /\ \E spare \in SpareNames(Cls(top)) :
          name = [w \in Wires(top) |-> InitName(top, spare, w)]
    /\ inputs = [p \in Tree(top) |-> <<>>]
    /\ bound = [p \in Tree(top) |-> FALSE]
    /\ outputs = [p \in Tree(top) |-> InitOutputs(p)]
    /\ last = Op("new", IF top \in JKTops THEN "AttributeError" ELSE NoErr)
    /\ settled = <<>>

Init ==
    InitFor(PrimitiveTops \cup DerivedTops \cup LatchTops \cup FlipFlopTops
                \cup JKTops)

\* c = Component(ins): the caller passes an input list to the constructor
New(ins) ==
    LET c == Component_init(top, ins, Current)
    IN /\ last.op = "new"
       /\ inputs' = c.inputs
       /\ bound' = c.bound
       /\ outputs' = c.outputs
       /\ name' = c.name
       /\ last' = Op("init", c.err)
       /\ UNCHANGED <<top, state, settled>>

\* node.state = v on one of the caller's wires
SetState(w, v) ==
    /\ Built
    /\ state[w] # v
    /\ state' = [state EXCEPT ![w] = v]
    /\ last' = Op("state", NoErr)
    /\ UNCHANGED <<top, name, inputs, bound, outputs, settled>>

\* top.inputs = ins
Bind(ins) ==
    LET c == BindResult(ins)
    IN /\ Built
       /\ inputs' = c.inputs
       /\ bound' = c.bound
       /\ outputs' = c.outputs
       /\ name' = c.name
       /\ last' = Op("inputs", c.err)
       /\ UNCHANGED <<top, state, settled>>

\* top.calculate()
Calculate ==
    LET r == calculate(top, [st |-> state, err |-> NoErr])
    IN /\ Built
       /\ state' = r.st
       /\ last' = Op("calculate", r.err)
       /\ settled' = IF r.err = NoErr THEN StatesOf(outputs[top], r.st) ELSE settled
       /\ UNCHANGED <<top, name, inputs, bound, outputs>>

Next ==
    \/ \E ins \in InputLists : New(ins)
    \/ \E w \in ExtWires(top), v \in State : SetState(w, v)
    \/ \E ins \in InputLists : Bind(ins)
    \/ Calculate

Spec == Init /\ [][Next]_vars

SpecPrimitive == InitFor(PrimitiveTops) /\ [][Next]_vars

SpecDerived == InitFor(DerivedTops) /\ [][Next]_vars

SpecLatch == InitFor(LatchTops) /\ [][Next]_vars

SpecFlipFlop == InitFor(FlipFlopTops) /\ [][Next]_vars

SpecFlipFlops == InitFor(FlipFlopTops \cup JKTops) /\ [][Next]_vars

\* the components built of other components
SpecComposite ==
    InitFor(DerivedTops \cup LatchTops \cup FlipFlopTops) /\ [][Next]_vars

(***************************************************************************)
(* A caller that holds a bare NodeList of its named wires, as the tests of *)
(* NodeList do: inputs[top] is the list.                                   *)
(***************************************************************************)
ListTop == <<"NodeList">>

\* the names the caller gives its wires and asks for
ListNames == {"Set", "Reset", "set"}

InitNodeList ==
    /\ top = ListTop
    /\ state = [w \in NamedWires |-> low]
    /\ name \in [NamedWires -> ListNames]
    /\ inputs = [p \in {ListTop} |-> <<>>]
    /\ bound = [p \in {ListTop} |-> TRUE]
    /\ outputs = [p \in {ListTop} |-> <<>>]
    /\ last = Op("new", NoErr)
    /\ settled = <<>>

\* nodes = NodeList(ws)
NodeList_new(ws) ==
    /\ inputs' = [inputs EXCEPT ![top] = ws]
    /\ last' = Op("NodeList", NoErr)
    /\ UNCHANGED <<top, state, name, bound, outputs, settled>>

\* nodes.get_object_by_name(n)
Lookup(n) ==
    LET r == get_object_by_name(inputs[top], n, name)
    IN /\ last' = [op |-> "get_object_by_name", arg |-> n, ret |-> r,
                   err |-> IF r = NoWire THEN "not found" ELSE NoErr,
                   msg |-> IF r = NoWire THEN NamesOf(inputs[top], name) ELSE <<>>]
       /\ UNCHANGED <<top, state, name, inputs, bound, outputs, settled>>

\* nodes.validate("element", expected_names, min_length, max_length)
Validate(expected_names, min_length, max_length) ==
    /\ last' = [op |-> "validate", expected |-> expected_names,
                err |-> validate(inputs[top], name, expected_names,
                                 min_length, max_length),
                msg |-> Reported(inputs[top], name, expected_names,
                                 min_length, max_length)]
    /\ UNCHANGED <<top, state, name, inputs, bound, outputs, settled>>

NextNodeList ==
    \/ \E ws \in NamedLists : NodeList_new(ws)
    \/ \E n \in ListNames : Lookup(n)
    \/ \E e \in {<<>>, <<"Set", "Reset">>}, mn \in {0, 2}, mx \in {0, 2} :
            Validate(e, mn, mx)

SpecNodeList == InitNodeList /\ [][NextNodeList]_vars

(***************************************************************************)
(* Vocabulary of the properties.                                           *)
(***************************************************************************)
\* the latest operation was a calculate() that returned
Calculated == last = Op("calculate", NoErr)

\* a step in which calculate() is called and returns
CalculateStep == last' = Op("calculate", NoErr) /\ bound[top]

\* the state of the input wire that carries port name n
In(n) == state[get_object_by_name(inputs[top], n, name)]

\* the states of the input list, in list order
InStates == StatesOf(inputs[top], state)

\* the states of the output wires
Out == StatesOf(outputs[top], state)
Q == state[outputs[top][1]]
QBar == state[outputs[top][2]]

\* the gate equations, written on the three signal values: an input other
\* than low pulls a NOR output low, an input that is low pulls a NAND
\* output high
NOR(a, b) == IF a = low /\ b = low THEN high ELSE low
NAND(a, b) == IF a = low \/ b = low THEN high ELSE low
Complement(v) == IF v = high THEN low ELSE high

IsNorLatch == Cls(top) = "SRNorLatch"
IsNandLatch == Cls(top) = "SRNandLatch"
IsFlipFlop == Cls(top) = "DTypeFlipFlop"

(***************************************************************************)
(* C1.  Whenever calculate() returns on a bound SR-NOR or SR-NAND latch,   *)
(* whatever the Set/Reset states and the earlier Q/QBar were, the wire     *)
(* states are a fixed point of the two gate equations: NOR form            *)
(* Q = NOR(Reset, QBar), QBar = NOR(Set, Q); NAND form                     *)
(* Q = NAND(Set, QBar), QBar = NAND(Reset, Q).                             *)
(***************************************************************************)
C1_SettledFixedPoint ==
    Calculated =>
        /\ IsNorLatch =>
              /\ Q = NOR(In("Reset"), QBar)
              /\ QBar = NOR(In("Set"), Q)
        /\ IsNandLatch =>
              /\ Q = NAND(In("Set"), QBar)
              /\ QBar = NAND(In("Reset"), Q)

\* a NOR latch settles to the reset state under a floating Reset
C1_Witness ==
    /\ Calculated /\ IsNorLatch
    /\ In("Set") = low /\ In("Reset") = z
    /\ Q = low /\ QBar = high

(***************************************************************************)
(* C2.  On a bound SR-NOR latch, from every reachable earlier Q/QBar, one  *)
(* calculate() with Set=High, Reset=Low gives Q=High, QBar=Low and one     *)
(* with Set=Low, Reset=High gives Q=Low, QBar=High.                        *)
(***************************************************************************)
C2_NorSetReset ==
    (Calculated /\ IsNorLatch) =>
        /\ (In("Set") = high /\ In("Reset") = low) => (Q = high /\ QBar = low)
        /\ (In("Set") = low /\ In("Reset") = high) => (Q = low /\ QBar = high)

C2_Witness ==
    /\ Calculated /\ IsNorLatch
    /\ In("Set") = high /\ In("Reset") = low
    /\ Q = high /\ QBar = low
    /\ inputs[top] = <<Ext(2), Ext(1)>>

(***************************************************************************)
(* C3.  On a bound SR-NOR latch, a calculate() called with Set=Low and     *)
(* Reset=Low after an earlier calculate() leaves Q and QBar at the values  *)
(* they had after that earlier calculate().                                *)
(*                                                                         *)
(* As stated, for an earlier calculate() made with any input combination:  *)
(***************************************************************************)
C3_Original ==
    [][(CalculateStep /\ IsNorLatch /\ settled # <<>>
            /\ In("Set") = low /\ In("Reset") = low)
        => settled' = settled]_vars

(***************************************************************************)
(* C3, amended.  The same, for an earlier calculate() that left Q and QBar *)
(* complementary; every calculate() of the NOR latch leaves them           *)
(* complementary unless both Set and Reset are asserted (High or           *)
(* Floating), which leaves both Low.                                       *)
(***************************************************************************)
C3_NorHold ==
    [][(CalculateStep /\ IsNorLatch) =>
        /\ (settled # <<>> /\ settled[1] # settled[2]
                /\ In("Set") = low /\ In("Reset") = low)
            => settled' = settled
        /\ IF In("Set") # low /\ In("Reset") # low
           THEN settled' = <<low, low>>
           ELSE settled'[1] # settled'[2]]_vars

\* the latch holds the reset state, which only an earlier call can have left
C3_Witness ==
    /\ Calculated /\ IsNorLatch
    /\ In("Set") = low /\ In("Reset") = low
    /\ settled = <<low, high>>

(***************************************************************************)
(* C4.  On a bound SR-NAND latch, from every reachable earlier Q/QBar, one *)
(* calculate() with Set=High, Reset=Low gives Q=Low, QBar=High and one     *)
(* with Set=Low, Reset=High gives Q=High, QBar=Low.                        *)
(***************************************************************************)
C4_NandSetReset ==
    (Calculated /\ IsNandLatch) =>
        /\ (In("Set") = high /\ In("Reset") = low) => (Q = low /\ QBar = high)
        /\ (In("Set") = low /\ In("Reset") = high) => (Q = high /\ QBar = low)

C4_Witness ==
    /\ Calculated /\ IsNandLatch
    /\ In("Set") = high /\ In("Reset") = low
    /\ Q = low /\ QBar = high
    /\ inputs[top] = <<Ext(2), Ext(1)>>

(***************************************************************************)
(* C5.  On a bound SR-NAND latch Set=High, Reset=High is the hold state:   *)
(* a calculate() called with both inputs High after an earlier calculate() *)
(* leaves Q and QBar at the values they had after that earlier call.       *)
(*                                                                         *)
(* As stated, for an earlier calculate() made with any input combination:  *)
(***************************************************************************)
C5_Original ==
    [][(CalculateStep /\ IsNandLatch /\ settled # <<>>
            /\ In("Set") = high /\ In("Reset") = high)
        => settled' = settled]_vars

(***************************************************************************)
(* C5, amended.  The same, for an earlier calculate() that left Q and QBar *)
(* complementary; every calculate() of the NAND latch leaves them          *)
(* complementary unless both Set and Reset are Low, which leaves both      *)
(* High.                                                                   *)
(***************************************************************************)
C5_NandHold ==
    [][(CalculateStep /\ IsNandLatch) =>
        /\ (settled # <<>> /\ settled[1] # settled[2]
                /\ In("Set") = high /\ In("Reset") = high)
            => settled' = settled
        /\ IF In("Set") = low /\ In("Reset") = low
           THEN settled' = <<high, high>>
           ELSE settled'[1] # settled'[2]]_vars

\* the latch holds Q=Low, which only an earlier call can have left
C5_Witness ==
    /\ Calculated /\ IsNandLatch
    /\ In("Set") = high /\ In("Reset") = high
    /\ settled = <<low, high>>

(***************************************************************************)
(* C6.  On a bound D-type flip-flop with Clk=High and D Low or High, from  *)
(* every reachable state, one calculate() makes Q equal to D and QBar the  *)
(* complement of D.                                                        *)
(***************************************************************************)
C6_TransparentWhenClkHigh ==
    (Calculated /\ IsFlipFlop /\ In("Clk") = high /\ In("D") \in {low, high}) =>
        /\ Q = In("D")
        /\ QBar = Complement(In("D"))

\* the very first calculate() after construction already captures D=High
C6_Witness ==
    /\ Calculated /\ IsFlipFlop
    /\ In("Clk") = high /\ In("D") = high
    /\ Q = high /\ QBar = low

(***************************************************************************)
(* C7.  On a bound D-type flip-flop every calculate() made while Clk=Low   *)
(* leaves Q and QBar at the values they had before the call, whatever D    *)
(* is.                                                                     *)
(*                                                                         *)
(* As stated, in every reachable state, the one right after construction   *)
(* included:                                                               *)
(***************************************************************************)
C7_Original ==
    [][(CalculateStep /\ IsFlipFlop /\ In("Clk") = low)
        => StatesOf(outputs[top], state') = StatesOf(outputs[top], state)]_vars

(***************************************************************************)
(* C7, amended.  The same, for every calculate() made while Clk=Low on a   *)
(* flip-flop on which calculate() has been called before.                  *)
(***************************************************************************)
C7_HoldWhenClkLow ==
    [][(CalculateStep /\ IsFlipFlop /\ In("Clk") = low /\ settled # <<>>)
        => StatesOf(outputs[top], state') = StatesOf(outputs[top], state)]_vars

\* Q stays Low although D is High
C7_Witness ==
    /\ Calculated /\ IsFlipFlop
    /\ In("Clk") = low /\ In("D") = high
    /\ Q = low /\ QBar = high

(***************************************************************************)
(* C8.  For an AND, OR or XOR gate bound to two or more inputs whose       *)
(* states are all Low or High, after calculate() the output is High        *)
(* exactly when: AND - all inputs are High; OR - at least one input is     *)
(* High; XOR - exactly one input is High; otherwise it is Low.  The        *)
(* output is a function of the current input states alone.                 *)
(***************************************************************************)
Highs == {i \in DOMAIN inputs[top] : InStates[i] = high}

C8_TruthTables ==
    (/\ Calculated
     /\ Cls(top) \in {"AndGate", "OrGate", "XorGate"}
     /\ Len(inputs[top]) >= 2
     /\ \A i \in DOMAIN inputs[top] : InStates[i] \in {low, high})
    => /\ Out[1] \in {low, high}
       /\ Cls(top) = "AndGate" => (Out[1] = high <=> Highs = DOMAIN inputs[top])
       /\ Cls(top) = "OrGate" => (Out[1] = high <=> Highs # {})
       /\ Cls(top) = "XorGate" => (Out[1] = high <=> Cardinality(Highs) = 1)

\* XOR of three High inputs is Low
C8_Witness ==
    /\ Calculated /\ Cls(top) = "XorGate"
    /\ InStates = <<high, high, high>>
    /\ Out = <<low>>

(***************************************************************************)
(* C9.  For every assignment of two or more input wires, after             *)
(* calculate() the output of NAND, NOR and XNOR is the complement of what  *)
(* AND, OR and XOR compute on the same inputs, and it is obtained through  *)
(* wiring: the composite's output wire is its NOT gate's output wire, and  *)
(* the NOT gate's input is the primitive stage's output.  This holds after *)
(* any sequence of input changes and rebinds.                              *)
(***************************************************************************)
Stage(cls) ==
    CASE cls = "NandGate" -> "AndGate"
      [] cls = "NorGate" -> "OrGate"
      [] cls = "XnorGate" -> "XorGate"

StageFn(cls, vs) ==
    CASE cls = "NandGate" -> AndFn(vs)
      [] cls = "NorGate" -> OrFn(vs)
      [] cls = "XnorGate" -> XorFn(vs)

C9_DerivedComplement ==
    (Calculated /\ Cls(top) \in DerivedClasses /\ Len(inputs[top]) >= 2) =>
        /\ Out[1] = Complement(StageFn(Cls(top), InStates))
        /\ outputs[top] = outputs[Sub(top, "NotGate")]
        /\ inputs[Sub(top, "NotGate")] = outputs[Sub(top, Stage(Cls(top)))]
        /\ inputs[Sub(top, Stage(Cls(top)))] = inputs[top]

\* a NOR gate over three inputs, two of them floating
C9_Witness ==
    /\ Calculated /\ Cls(top) = "NorGate"
    /\ inputs[top] = <<Ext(1), Ext(2), Ext(2)>>
    /\ InStates = <<low, z, z>>
    /\ Out = <<low>>

(***************************************************************************)
(* C10.  For a NOT gate bound to one input, after calculate() the output   *)
(* is High if and only if the input is exactly Low: NOT(Low) = High,       *)
(* NOT(High) = Low and NOT(Floating) = Low.                                *)
(***************************************************************************)
C10_NotGate ==
    (Calculated /\ Cls(top) = "NotGate") =>
        /\ Len(inputs[top]) = 1
        /\ InStates[1] = low => Out = <<high>>
        /\ InStates[1] = high => Out = <<low>>
        /\ InStates[1] = z => Out = <<low>>

C10_Witness ==
    /\ Calculated /\ Cls(top) = "NotGate"
    /\ InStates = <<z>>
    /\ Out = <<low>>

(***************************************************************************)
(* C11.  For every component variant and in every reachable state, a       *)
(* calculate() called right after a calculate() that returned, with no     *)
(* input state changed in between, returns the same output states; it      *)
(* changes no wire at all.                                                 *)
(***************************************************************************)
C11_Idempotent ==
    Calculated =>
        LET again == calculate(top, [st |-> state, err |-> NoErr])
        IN /\ again.err = NoErr
           /\ StatesOf(outputs[top], again.st) = settled
           /\ again.st = state

\* a NAND latch left with both outputs High by Set=Low, Reset=Low
C11_Witness ==
    /\ Calculated /\ IsNandLatch
    /\ In("Set") = low /\ In("Reset") = low
    /\ settled = <<high, high>>

(***************************************************************************)
(* C12.  For every gate in {AND, OR, XOR, NAND, NOR, XNOR}, binding an     *)
(* input list of 0 or 1 wires fails with the arity error, when the list is *)
(* passed to the constructor as well as when it is assigned later; no      *)
(* failure is left to show first at calculate().                           *)
(***************************************************************************)
MinTwoClasses == OneOutputClasses \ {"NotGate"}

ShortLists == {ins \in GateLists : Len(ins) < 2}

C12_Original ==
    Cls(top) \in MinTwoClasses =>
        /\ last.op = "new" =>
              \A ins \in ShortLists :
                  Component_init(top, ins, Current).err = "must have two or more inputs"
        /\ Built =>
              \A ins \in ShortLists :
                  BindResult(ins).err = "must have two or more inputs"
        /\ last.op = "calculate" => last.err = NoErr

(***************************************************************************)
(* C13.  On every component variant, a bind that fails arity or name-set   *)
(* validation, at construction or at a later assignment of inputs, mutates *)
(* nothing: the stored inputs and outputs of the component and of every    *)
(* sub-component and every wire name are what they were before the call    *)
(* (a bind never touches a wire state), so a following calculate() behaves *)
(* as if the call had never been made.                                     *)
(***************************************************************************)
ValidationErrors ==
    {"must have two or more inputs", "can only have one input",
     "minimum", "maximum", "not expected", "missing"}

\* c is Current but for the error it carries
NothingMutated(c) == [c EXCEPT !.err = NoErr] = Current

C13_FailedBindMutatesNothing ==
    /\ Built =>
          \A ins \in InputLists :
              LET c == BindResult(ins)
              IN c.err \in ValidationErrors => NothingMutated(c)
    /\ last.op = "new" =>
          \A ins \in InputLists :
              LET c == Component_init(top, ins, Current)
              IN c.err \in ValidationErrors => NothingMutated(c)
    /\ (last.op \in {"inputs", "init"} /\ last.err \in ValidationErrors
            /\ settled # <<>>) => settled = Out

\* a flip-flop that was bound and evaluated, then refused a list that lacks
\* a port name
C13_Witness ==
    /\ IsFlipFlop /\ bound[top] /\ settled = <<high, low>>
    /\ last = Op("inputs", "missing")
    /\ inputs[top] = <<Ext(1), Ext(2)>>

(***************************************************************************)
(* C14.  After a successful rebind of a composite component (derived gate, *)
(* SR latch, D-type flip-flop) that was already bound and evaluated, every *)
(* sub-component input is derived from the new input collection: no        *)
(* sub-component reads a caller's wire that is not in the new collection,  *)
(* and the result of the next calculate() does not depend on the state of  *)
(* any wire outside it.  Stated for every state in which the composite is  *)
(* bound, so in particular after every rebind.                             *)
(***************************************************************************)
CompositeClasses == DerivedClasses \cup LatchClasses \cup {"DTypeFlipFlop"}

\* the wire of p's input list that carries name n
By(p, n) == get_object_by_name(inputs[p], n, name)

\* the wiring the setter of p derives from inputs[p], down to the primitives
RECURSIVE Rederived(_)
Rederived(p) ==
    CASE Cls(p) \in DerivedClasses ->
            /\ inputs[Sub(p, Stage(Cls(p)))] = inputs[p]
            /\ inputs[Sub(p, "NotGate")] = outputs[Sub(p, Stage(Cls(p)))]
      [] Cls(p) = "SRNorLatch" ->
            /\ inputs[Sub(p, "NorGate1")] =
                    <<By(p, "Reset"), outputs[Sub(p, "NorGate2")][1]>>
            /\ inputs[Sub(p, "NorGate2")] =
                    <<By(p, "Set"), outputs[Sub(p, "NorGate1")][1]>>
            /\ Rederived(Sub(p, "NorGate1")) /\ Rederived(Sub(p, "NorGate2"))
      [] Cls(p) = "SRNandLatch" ->
            /\ inputs[Sub(p, "NandGate1")] =
                    <<By(p, "Set"), outputs[Sub(p, "NandGate2")][1]>>
            /\ inputs[Sub(p, "NandGate2")] =
                    <<By(p, "Reset"), outputs[Sub(p, "NandGate1")][1]>>
            /\ Rederived(Sub(p, "NandGate1")) /\ Rederived(Sub(p, "NandGate2"))
      [] Cls(p) = "DTypeFlipFlop" ->
            /\ inputs[Sub(p, "NotGate")] = <<By(p, "D")>>
            /\ inputs[Sub(p, "NandGate1")] = <<By(p, "D"), By(p, "Clk")>>
            /\ inputs[Sub(p, "NandGate2")] =
                    <<outputs[Sub(p, "NotGate")][1], By(p, "Clk")>>
            /\ inputs[Sub(p, "SRNandLatch")] =
                    <<outputs[Sub(p, "NandGate1")][1],
                      outputs[Sub(p, "NandGate2")][1]>>
            /\ Rederived(Sub(p, "NandGate1")) /\ Rederived(Sub(p, "NandGate2"))
            /\ Rederived(Sub(p, "SRNandLatch"))
      [] OTHER -> TRUE

\* the caller's wires that are not in top's input list
Unused == {w \in ExtWires(top) : \A i \in DOMAIN inputs[top] : inputs[top][i] # w}

\* what calculate() would return now, from wire states st
Returned(st) ==
    StatesOf(outputs[top], calculate(top, [st |-> st, err |-> NoErr]).st)

C14_RebindRederives ==
    (Cls(top) \in CompositeClasses /\ bound[top]) =>
        /\ Rederived(top)
        /\ \A p \in Tree(top) : \A i \in DOMAIN inputs[p] : inputs[p][i] \notin Unused
        /\ LET now == Returned(state)
           IN \A w \in Unused : \A v \in State \ {state[w]} :
                  Returned([state EXCEPT ![w] = v]) = now

\* a flip-flop evaluated, then rebound to a list with another D wire whose
\* state differs from the state of the wire left behind
C14_Witness ==
    /\ IsFlipFlop /\ settled = <<high, low>>
    /\ last = Op("inputs", NoErr)
    /\ inputs[top] = <<Ext(3), Ext(2)>>
    /\ state[Ext(1)] = high /\ state[Ext(3)] = low /\ state[Ext(2)] = high

(***************************************************************************)
(* C15.  NodeList.validate with an expected name set, applied to a         *)
(* collection that both lacks a required name and contains an unexpected   *)
(* name, reports both conditions.                                          *)
(*                                                                         *)
(* As stated:                                                              *)
(***************************************************************************)
ValidatedNames == {name[inputs[top][i]] : i \in DOMAIN inputs[top]}
ExpectedNames == {last.expected[i] : i \in DOMAIN last.expected}

\* validate was called with expected names, the length checks passed, and
\* the collection has an unexpected name and lacks an expected one
BothConditions ==
    /\ last.op = "validate" /\ last.expected # <<>>
    /\ last.err \notin {"minimum", "maximum"}
    /\ ValidatedNames \ ExpectedNames # {}
    /\ ExpectedNames \ ValidatedNames # {}

C15_Original ==
    BothConditions =>
        /\ last.msg.unexpected = ValidatedNames \ ExpectedNames
        /\ last.msg.missing = ExpectedNames \ ValidatedNames

(***************************************************************************)
(* C15, amended.  On such a collection validate raises for the unexpected  *)
(* names alone: its message lists the unexpected names and no missing      *)
(* name.  Missing names are reported only for a collection without         *)
(* unexpected names.                                                       *)
(***************************************************************************)
C15_FirstConditionOnly ==
    (last.op = "validate" /\ last.expected # <<>>
            /\ last.err \notin {"minimum", "maximum"}) =>
        /\ BothConditions =>
              /\ last.err = "not expected"
              /\ last.msg.unexpected = ValidatedNames \ ExpectedNames
              /\ last.msg.missing = {}
        /\ last.msg.missing # {} =>
              /\ ValidatedNames \subseteq ExpectedNames
              /\ last.msg.missing = ExpectedNames \ ValidatedNames

\* the collection (Set, set) checked against the names Set and Reset
C15_Witness ==
    /\ BothConditions
    /\ NamesOf(inputs[top], name) = <<"Set", "set">>
    /\ last.msg = [unexpected |-> {"set"}, missing |-> {}]

(***************************************************************************)
(* C16.  In the AND, OR and XOR gates an input counts as asserted if and   *)
(* only if its state equals High; a Floating input counts as not asserted, *)
(* exactly like Low: after calculate() AND is High iff every input is      *)
(* High, OR iff some input is High, XOR iff exactly one input is High.     *)
(***************************************************************************)
C16_Original ==
    (Calculated /\ Cls(top) \in {"AndGate", "OrGate", "XorGate"}) =>
        /\ Cls(top) = "AndGate" => (Out[1] = high <=> Highs = DOMAIN inputs[top])
        /\ Cls(top) = "OrGate" => (Out[1] = high <=> Highs # {})
        /\ Cls(top) = "XorGate" => (Out[1] = high <=> Cardinality(Highs) = 1)

(***************************************************************************)
(* C17.  A JK flip-flop can be constructed, and binding it to exactly      *)
(* three wires named J, K and Clk passes validation and wires              *)
(* NandGate1(J, Clk, latch QBar) as Set and NandGate2(K, Clk, latch Q) as  *)
(* Reset into its SR-NAND latch, after which its outputs are the latch's   *)
(* Q and QBar and calculate() completes without error.                     *)
(***************************************************************************)
IsJK == Cls(top) = "JKFlipFlop"

\* the lists of exactly three wires named J, K and Clk
JKLists ==
    {ins \in NamedLists :
        Len(ins) = 3 /\ {name[ins[i]] : i \in DOMAIN ins} = {"J", "K", "Clk"}}

\* the binding of ins succeeded and wired the flip-flop as described
JKWired(ins, c) ==
    LET latch == Sub(top, "SRNandLatch")
        pin(n) == get_object_by_name(ins, n, name)
    IN /\ c.err = NoErr
       /\ c.inputs[Sub(top, "NandGate1")] = <<pin("J"), pin("Clk"), c.outputs[latch][2]>>
       /\ c.inputs[Sub(top, "NandGate2")] = <<pin("K"), pin("Clk"), c.outputs[latch][1]>>
       /\ c.inputs[latch] =
            <<c.outputs[Sub(top, "NandGate1")][1], c.outputs[Sub(top, "NandGate2")][1]>>
       /\ c.outputs[top] = c.outputs[latch]

C17_Original ==
    IsJK =>
        /\ last.op = "new" => last.err = NoErr
        /\ last.op = "new" =>
              \A ins \in JKLists : JKWired(ins, Component_init(top, ins, Current))
        /\ Built => \A ins \in JKLists : JKWired(ins, BindResult(ins))
        /\ last.op = "calculate" => last.err = NoErr

(***************************************************************************)
(* C18.  Binding a NOT gate to an input list of length 0 or of length 2 or *)
(* more fails with the arity error, at construction as well as at a later  *)
(* rebind; only a list of exactly one wire is accepted.                    *)
(*                                                                         *)
(* As stated:                                                              *)
(***************************************************************************)
IsNot == Cls(top) = "NotGate"

\* c is the outcome the claim describes for list ins
OneWireOnly(ins, c) ==
    IF Len(ins) = 1
    THEN c.err = NoErr /\ c.bound[top] /\ c.inputs[top] = ins
    ELSE c.err = "can only have one input"

IsLatch == Cls(top) \in LatchClasses

SetAndReset(ins) ==
    Len(ins) = 2 /\ {name[ins[i]] : i \in DOMAIN ins} = {"Set", "Reset"}

\* the call that returned c bound the latch
Succeeded(c) == c.err = NoErr /\ c.bound[top]

\* c and d wire every gate of the latch alike
SameWiring(c, d) ==
    /\ \A p \in Tree(top) \ {top} : c.inputs[p] = d.inputs[p] /\ c.bound[p] = d.bound[p]
    /\ c.outputs = d.outputs
    /\ c.name = d.name

C19_LatchBinding ==
    IsLatch =>
        /\ last.op = "new" =>
              \A ins \in NamedLists :
                  Succeeded(Component_init(top, ins, Current)) <=> SetAndReset(ins)
        /\ Built =>
              \A ins \in NamedLists :
                  /\ Succeeded(BindResult(ins)) <=> SetAndReset(ins)
                  /\ SetAndReset(ins) =>
                        SameWiring(BindResult(ins), BindResult(<<ins[2], ins[1]>>))
        /\ bound[top] =>
              /\ SetAndReset(inputs[top])
              /\ Rederived(top)
              /\ name[outputs[top][1]] = "Q"
              /\ name[outputs[top][2]] = "QBar"

\* a NAND latch bound to [Reset, Set], the Set wire being the caller's
\* third wire, evaluated with Set=Low
C19_Witness ==
    /\ Calculated /\ IsNandLatch
    /\ NamesOf(inputs[top], name) = <<"Reset", "Set">>
    /\ inputs[top] = <<Ext(2), Ext(3)>>
    /\ state[Ext(3)] = low /\ state[Ext(2)] = high
    /\ Q = high /\ QBar = low

(***************************************************************************)
(* C20.  Lookup by name on a named collection returns the first entity, in *)
(* collection order, whose name equals the requested name exactly          *)
(* (case-sensitive), also when several entities carry that name; when no   *)
(* entity matches it fails with the not-found error, whose message lists   *)
(* all names of the collection in order; the collection is unchanged.      *)
(***************************************************************************)
C20_LookupByName ==
    [][last'.op = "get_object_by_name" =>
        LET ws == inputs[top]
            matches == {i \in DOMAIN ws : name[ws[i]] = last'.arg}
        IN /\ inputs' = inputs /\ name' = name /\ state' = state
           /\ IF matches = {}
              THEN /\ last'.err = "not found"
                   /\ last'.msg = [i \in DOMAIN ws |-> name[ws[i]]]
              ELSE /\ last'.err = NoErr
                   /\ \E i \in matches :
                        /\ last'.ret = ws[i]
                        /\ \A j \in 1..(i - 1) : name[ws[j]] # last'.arg]_vars

\* "Set" looked up in the collection (set, Set, Set): the second entry
C20_Witness ==
    /\ last.op = "get_object_by_name"
    /\ NamesOf(inputs[top], name) = <<"set", "Set", "Set">>
    /\ last.arg = "Set"
    /\ last.ret = inputs[top][2]
    /\ last.err = NoErr

(***************************************************************************)
(* C21.  On a freshly constructed and bound latch, on which calculate()    *)
(* has not returned yet, every internal and output wire is still Low, and  *)
(* the first calculate() with the hold input (SR-NOR: Set=Low, Reset=Low;  *)
(* SR-NAND: Set=High, Reset=High) returns Q=High, QBar=Low.                *)
(***************************************************************************)
\* the latch is bound and calculate() has not returned on it yet
Fresh == bound[top] /\ settled = <<>>

HoldInput ==
    \/ IsNorLatch /\ In("Set") = low /\ In("Reset") = low
    \/ IsNandLatch /\ In("Set") = high /\ In("Reset") = high

C21_FirstHold ==
    (IsLatch /\ Fresh) =>
        /\ \A w \in OwnWires(top) : state[w] = low
        /\ HoldInput => Returned(state) = <<high, low>>

\* the state the first calculate() leaves when no wire of the caller was
\* ever anything but Low: Q=High
C21_Witness ==
    /\ Calculated /\ IsNorLatch /\ HoldInput
    /\ settled = <<high, low>>
    /\ \A w \in ExtWires(top) : state[w] = low

(***************************************************************************)
(* C22.  The illegal input combination is not detected and raises no       *)
(* error: from every prior state, calculate() on an SR-NOR latch with      *)
(* Set=High, Reset=High returns Q=Low, QBar=Low, and calculate() on an     *)
(* SR-NAND latch with Set=Low, Reset=Low returns Q=High, QBar=High.        *)
(***************************************************************************)
IllegalInput ==
    \/ IsNorLatch /\ In("Set") = high /\ In("Reset") = high
    \/ IsNandLatch /\ In("Set") = low /\ In("Reset") = low

\* both outputs at the level the illegal combination forces
IllegalOutput == IF IsNorLatch THEN <<low, low>> ELSE <<high, high>>

C22_IllegalNotDetected ==
    (IsLatch /\ bound[top] /\ IllegalInput) =>
        /\ calculate(top, [st |-> state, err |-> NoErr]).err = NoErr
        /\ Returned(state) = IllegalOutput
        /\ last.op = "calculate" => (last.err = NoErr /\ Out = IllegalOutput)

\* a NOR latch that was set, then evaluated with both inputs High
C22_Witness ==
    /\ Calculated /\ IsNorLatch
    /\ In("Set") = high /\ In("Reset") = high
    /\ settled = <<low, low>>
    /\ state[W(Sub(Sub(top, "NorGate2"), "OrGate"))] = high

(***************************************************************************)
(* C23.  After every calculate() of an SR latch whose inputs are not the   *)
(* illegal combination (NOR: not both asserted, that is, not both High;    *)
(* NAND: not both Low), Q and QBar are complementary (one High, one Low),  *)
(* whatever the prior state was; after every calculate() of the D-type     *)
(* flip-flop Q and QBar are complementary for every D/Clk value, Floating  *)
(* included.                                                               *)
(***************************************************************************)
Complementary == {Q, QBar} = {low, high}

C23_Original ==
    Calculated =>
        /\ (IsNorLatch /\ ~(In("Set") = high /\ In("Reset") = high)) => Complementary
        /\ (IsNandLatch /\ ~(In("Set") = low /\ In("Reset") = low)) => Complementary
        /\ IsFlipFlop => Complementary

(***************************************************************************)
(* C24.  Rebinding the inputs of a derived gate, SR latch or D-type        *)
(* flip-flop changes no wire's state and keeps the identity of the output  *)
(* wires, so the stored latch state survives a rebind and a hold-input     *)
(* calculate() after the rebind returns the pre-rebind Q/QBar.             *)
(***************************************************************************)
\* a step in which `top.inputs = ins` runs on a component built of others
BindStep == last'.op = "inputs" /\ Cls(top) \in CompositeClasses

\* the bind wrote no wire state and left the output wires in place
BindFrame == state' = state /\ outputs' = outputs

\* the inputs that make the component keep what it stores
Holding ==
    \/ HoldInput
    \/ IsFlipFlop /\ In("Clk") = low

\* calculate() runs right after a successful rebind of a component that was
\* evaluated before, with inputs that hold
HoldAfterRebind ==
    /\ last = Op("inputs", NoErr)
    /\ settled # <<>>
    /\ Holding
    /\ CalculateStep

\* as stated: for every Q/QBar found before the rebind
C24_Original ==
    [][/\ BindStep => BindFrame
       /\ HoldAfterRebind => Out' = Out]_vars

\* C24 as the code has it: the bind is a frame for wire states and output
\* wires; the hold after the rebind returns the pre-rebind Q/QBar when these
\* are complementary
C24_RebindKeepsState ==
    [][/\ BindStep => BindFrame
       /\ (HoldAfterRebind /\ Complementary) => Out' = Out]_vars

\* a NOR latch left in the reset state, rebound to a list read in the other
\* order, its inputs at hold: calculate() would return the reset state
C24_Witness ==
    /\ last = Op("inputs", NoErr)
    /\ IsNorLatch /\ HoldInput
    /\ settled = <<low, high>> /\ Out = settled
    /\ inputs[top][1] # By(top, "Set")
    /\ Returned(state) = <<low, high>>

(***************************************************************************)
(* C25.  calculate() on any component writes only the states of wires that *)
(* are the output of that component or of one of its sub-components: the   *)
(* states of the externally supplied input wires, all wire names, and      *)
(* every inputs/outputs binding are the same after the call as before it.  *)
(***************************************************************************)
\* the output wires of p and of the components below it
Driven(p) == {outputs[q][i] : <<q, i>> \in
                 UNION {{q} \X DOMAIN outputs[q] : q \in Tree(p)}}

\* the wires whose state differs between st and st2
Written(st, st2) == {w \in Wires(top) : st2[w] # st[w]}

C25_CalculateFrame ==
    [][last'.op = "calculate" =>
          /\ Written(state, state') \subseteq Driven(top)
          /\ \A w \in ExtWires(top) : state'[w] = state[w]
          /\ \A p \in Tree(top) :
                Written(state, calculate(p, [st |-> state, err |-> NoErr]).st)
                    \subseteq Driven(p)
          /\ name' = name
          /\ inputs' = inputs /\ outputs' = outputs /\ bound' = bound]_vars

\* a flip-flop evaluated with D Floating and the clock High: Q was written,
\* D is still Floating
C25_Witness ==
    /\ Calculated /\ IsFlipFlop
    /\ In("D") = z /\ In("Clk") = high
    /\ Out = <<high, low>>

(***************************************************************************)
(* C26.  No wire driven by a gate is ever Floating: every output and       *)
(* internal wire of every component is Low at construction and is Low or   *)
(* High after any sequence of binds, input changes (Floating included) and *)
(* calculate() calls.                                                      *)
(***************************************************************************)
C26_NeverFloating ==
    /\ \A w \in OwnWires(top) : state[w] \in {low, high}
    /\ last.op = "new" => \A w \in OwnWires(top) : state[w] = low

\* a flip-flop evaluated with D and the clock both Floating: the inverter of
\* D drove its wire Low and the latch was set
C26_Witness ==
    /\ Calculated /\ IsFlipFlop
    /\ In("D") = z /\ In("Clk") = z
    /\ state[W(Sub(top, "NotGate"))] = low
    /\ Q = high /\ QBar = low

====
